---- MODULE Spec2Model ----
(***************************************************************************)
(* Checkers rules engine and bot (src/lib/checkers-logic.ts).              *)
(*                                                                         *)
(* The board is the 8x8 grid board[row][col] of the source; a cell is a    *)
(* Piece record or Null.  The functions of the library are operators with  *)
(* the source's names, computed the way the code computes them (move lists *)
(* are sequences in generation order).  The specifications driving them:   *)
(*   Spec        free play from createInitialBoard()                       *)
(*   SpecBoards  the library functions called on set-up positions          *)
(*   SpecSearch  minimax / getBotMove called on set-up positions           *)
(*   SpecPieces  getValidMoves called on every square of set-up positions  *)
(*   SpecBot     getBotMove below rating 1200 on set-up positions          *)
(*   SpecHost    the CheckersGame component                                *)
(*               (src/components/checkers-game.tsx): its state, its click, *)
(*               reset and difficulty handlers and its timers              *)
(*   SpecHostLate  the same component late in a game                       *)
(***************************************************************************)
EXTENDS Integers, Sequences, FiniteSets, TLC

VARIABLES
    board,   \* the Board object the calls are made on (the game board)
    plies,   \* number of moves applied to the game board so far
    call     \* the last library call: its arguments (saved) and its result

\* the component CheckersGame (`board` above is its board state)
VARIABLES
    game,          \* its other useState values, a record with the fields
                   \*   currentPlayer     useState<PieceType>('white')
                   \*   selectedPosition  useState<Position | null>(null)
                   \*   validMoves        useState<Move[]>([])
                   \*   winner            useState<PieceType>(null)
                   \*   difficulty        useState(1000)
                   \*   isThinking        useState(false)
                   \*   animatingMove     useState<Move | null>(null)
    timers,        \* the pending setTimeout callbacks, in firing order
    lastApplied,   \* ghost: the side whose move was applied last since the
                   \* game started or was reset, "none" before there is one
    resets         \* ghost: number of resets so far

hostVars == <<game, timers, lastApplied, resets>>

vars == <<board, plies, call, hostVars>>

----------------------------------------------------------------------------
(* Types and constants of the library *)

BOARD_SIZE == 8

\* stand-in for the IEEE Infinity of the search: larger than any score
Infinity == 1000000

Rows == 0 .. (BOARD_SIZE - 1)
Cols == 0 .. (BOARD_SIZE - 1)

\* `null` cell of a Board
Null == [type |-> "null", isKing |-> FALSE]

Piece(type, isKing) == [type |-> type, isKing |-> isKing]

Position(row, col) == [row |-> row, col |-> col]

\* Move without `captured` (captured?: undefined) is modelled with captured = <<>>
Move(from, to, captured) == [from |-> from, to |-> to, captured |-> captured]

\* move.captured && move.captured.length > 0
isCapture(move) == Len(move.captured) > 0

----------------------------------------------------------------------------
(* createInitialBoard *)

createInitialBoardOnLight ==
    [row \in Rows |-> [col \in Cols |->
        IF (row + col) % 2 = 0
        THEN IF row < 3 THEN Piece("black", FALSE)
             ELSE IF row > 4 THEN Piece("white", FALSE)
             ELSE Null
        ELSE Null]]

\* the initial board with white placed from row 4 on (`row > 3`)
createInitialBoardFourRows ==
    [row \in Rows |-> [col \in Cols |->
        IF (row + col) % 2 = 1
        THEN IF row < 3 THEN Piece("black", FALSE)
             ELSE IF row > 3 THEN Piece("white", FALSE)
             ELSE Null
        ELSE Null]]

createInitialBoard ==
    [row \in Rows |-> [col \in Cols |->
        IF (row + col) % 2 = 1
        THEN IF row < 3 THEN Piece("black", FALSE)
             ELSE IF row > 4 THEN Piece("white", FALSE)
             ELSE Null
        ELSE Null]]

----------------------------------------------------------------------------
(* Move generator *)

isValidPosition(row, col) ==
    row >= 0 /\ row < BOARD_SIZE /\ col >= 0 /\ col < BOARD_SIZE

\* the directions with the two sides' row steps exchanged
directionsSwapped(piece) ==
    (IF piece.type = "black" \/ piece.isKing
     THEN << <<-1, -1>>, <<-1, 1>> >> ELSE << >>)
    \o
    (IF piece.type = "white" \/ piece.isKing
     THEN << <<1, -1>>, <<1, 1>> >> ELSE << >>)

\* the `directions` array built at the top of getValidMoves
directions(piece) ==
    (IF piece.type = "white" \/ piece.isKing
     THEN << <<-1, -1>>, <<-1, 1>> >> ELSE << >>)
    \o
    (IF piece.type = "black" \/ piece.isKing
     THEN << <<1, -1>>, <<1, 1>> >> ELSE << >>)

\* one iteration of the direction loop: what it pushes on `moves`
stepMoves(b, position, d) ==
    LET newRow == position.row + d[1]
        newCol == position.col + d[2]
    IN  IF isValidPosition(newRow, newCol) /\ b[newRow][newCol] = Null
        THEN << Move(position, Position(newRow, newCol), << >>) >>
        ELSE << >>

\* the capture test without the comparison of the two pieces' sides
stepCapturesAnyPiece(b, position, piece, d) ==
    LET newRow == position.row + d[1]
        newCol == position.col + d[2]
        jumpRow == newRow + d[1]
        jumpCol == newCol + d[2]
    IN  IF /\ isValidPosition(newRow, newCol)
           /\ b[newRow][newCol] # Null
           /\ isValidPosition(jumpRow, jumpCol)
           /\ b[jumpRow][jumpCol] = Null
        THEN << Move(position, Position(jumpRow, jumpCol),
                     << Position(newRow, newCol) >>) >>
        ELSE << >>

\* one iteration of the direction loop: what it pushes on `captures`
stepCaptures(b, position, piece, d) ==
    LET newRow == position.row + d[1]
        newCol == position.col + d[2]
        jumpRow == newRow + d[1]
        jumpCol == newCol + d[2]
    IN  IF /\ isValidPosition(newRow, newCol)
           /\ b[newRow][newCol] # Null
           /\ b[newRow][newCol].type # piece.type
           /\ isValidPosition(jumpRow, jumpCol)
           /\ b[jumpRow][jumpCol] = Null
        THEN << Move(position, Position(jumpRow, jumpCol),
                     << Position(newRow, newCol) >>) >>
        ELSE << >>

RECURSIVE loopMoves(_, _, _, _)
loopMoves(b, position, dirs, i) ==
    IF i > Len(dirs) THEN << >>
    ELSE stepMoves(b, position, dirs[i]) \o loopMoves(b, position, dirs, i + 1)

RECURSIVE loopCaptures(_, _, _, _, _)
loopCaptures(b, position, piece, dirs, i) ==
    IF i > Len(dirs) THEN << >>
    ELSE stepCaptures(b, position, piece, dirs[i])
         \o loopCaptures(b, position, piece, dirs, i + 1)

\* getValidMoves returning the captures together with the simple moves
getValidMovesNoPriority(b, position) ==
    LET piece == b[position.row][position.col]
    IN  IF piece = Null THEN << >>
        ELSE LET dirs == directions(piece)
                 moves == loopMoves(b, position, dirs, 1)
                 captures == loopCaptures(b, position, piece, dirs, 1)
             IN  captures \o moves

getValidMoves(b, position) ==
    LET piece == b[position.row][position.col]
    IN  IF piece = Null THEN << >>
        ELSE LET dirs == directions(piece)
                 moves == loopMoves(b, position, dirs, 1)
                 captures == loopCaptures(b, position, piece, dirs, 1)
             IN  IF Len(captures) > 0 THEN captures ELSE moves

\* the cells the row/col double loops visit, numbered row-major
Cells == 0 .. (BOARD_SIZE * BOARD_SIZE - 1)
cellRow(k) == k \div BOARD_SIZE
cellCol(k) == k % BOARD_SIZE

\* the cells holding a piece of `type`
cellsOf(b, type) == {k \in Cells : b[cellRow(k)][cellCol(k)].type = type}

\* the cells holding any piece
occupiedCells(b) == {k \in Cells : b[cellRow(k)][cellCol(k)] # Null}

\* the row/col double loop of getAllValidMoves: the pieceMoves of every piece
\* of playerType, concatenated in row-major order of the pieces' cells
RECURSIVE pieceMovesOf(_, _)
pieceMovesOf(b, cells) ==
    IF cells = {} THEN << >>
    ELSE LET k == CHOOSE x \in cells : \A y \in cells : x <= y
         IN  getValidMoves(b, Position(cellRow(k), cellCol(k)))
             \o pieceMovesOf(b, cells \ {k})

getAllValidMovesNoForce(b, playerType) ==
    pieceMovesOf(b, cellsOf(b, playerType))

getAllValidMoves(b, playerType) ==
    LET all == pieceMovesOf(b, cellsOf(b, playerType))
        captures == SelectSeq(all, isCapture)
        moves == SelectSeq(all, LAMBDA m : ~isCapture(m))
    IN  IF Len(captures) > 0 THEN captures ELSE moves

----------------------------------------------------------------------------
(* Move applicator *)

\* newBoard[pos.row][pos.col] = v
Put(b, pos, v) == [b EXCEPT ![pos.row][pos.col] = v]

\* for (const pos of move.captured) newBoard[pos.row][pos.col] = null
RECURSIVE clearCaptured(_, _, _)
clearCaptured(b, captured, i) ==
    IF i > Len(captured) THEN b
    ELSE clearCaptured(Put(b, captured[i], Null), captured, i + 1)

\* the writes with black crowned on row BOARD_SIZE instead of BOARD_SIZE - 1
moveWritesOffByOne(newBoard, move) ==
    LET piece == newBoard[move.from.row][move.from.col]
    IN  IF piece = Null THEN newBoard
        ELSE LET b1 == Put(newBoard, move.to, piece)
                 b2 == Put(b1, move.from, Null)
                 b3 == clearCaptured(b2, move.captured, 1)
             IN  IF piece.type = "white" /\ move.to.row = 0
                 THEN Put(b3, move.to, [piece EXCEPT !.isKing = TRUE])
                 ELSE IF piece.type = "black" /\ move.to.row = BOARD_SIZE
                 THEN Put(b3, move.to, [piece EXCEPT !.isKing = TRUE])
                 ELSE b3

\* the writes with the moved piece's isKing set from the row it lands on alone
moveWritesDemote(newBoard, move) ==
    LET piece == newBoard[move.from.row][move.from.col]
    IN  IF piece = Null THEN newBoard
        ELSE LET b1 == Put(newBoard, move.to, piece)
                 b2 == Put(b1, move.from, Null)
                 b3 == clearCaptured(b2, move.captured, 1)
             IN  Put(b3, move.to,
                     [piece EXCEPT !.isKing =
                         \/ piece.type = "white" /\ move.to.row = 0
                         \/ piece.type = "black" /\ move.to.row = BOARD_SIZE - 1])

\* the writes of makeMove on the array it calls newBoard
moveWrites(newBoard, move) ==
    LET piece == newBoard[move.from.row][move.from.col]
    IN  IF piece = Null THEN newBoard
        ELSE LET b1 == Put(newBoard, move.to, piece)
                 b2 == Put(b1, move.from, Null)
                 b3 == clearCaptured(b2, move.captured, 1)
             IN  IF piece.type = "white" /\ move.to.row = 0
                 THEN Put(b3, move.to, [piece EXCEPT !.isKing = TRUE])
                 ELSE IF piece.type = "black" /\ move.to.row = BOARD_SIZE - 1
                 THEN Put(b3, move.to, [piece EXCEPT !.isKing = TRUE])
                 ELSE b3

\* makeMove without the copy: newBoard is the caller's array itself
makeMoveCallAliased(b, move) ==
    LET heap == [arg |-> b]
        newBoard == "arg"
        after == [heap EXCEPT ![newBoard] = moveWrites(heap[newBoard], move)]
    IN  [arg |-> after.arg, ret |-> after[newBoard]]

\* makeMove as a call on array objects: `arg` is the caller's array after the
\* call, `ret` the array returned.  newBoard is a fresh deep copy (board.map of
\* row.map of {...cell}), so the writes land in the copy only.
makeMoveCall(b, move) ==
    LET heap == [arg |-> b, copy |-> b]
        newBoard == "copy"
        after == [heap EXCEPT ![newBoard] = moveWrites(heap[newBoard], move)]
    IN  [arg |-> after.arg, ret |-> after[newBoard]]

makeMove(b, move) == makeMoveCall(b, move).ret

----------------------------------------------------------------------------
(* Terminal detector *)

\* checkWinner without the piece counts: mobility alone decides
checkWinnerNoCounts(b) ==
    LET whiteMoves == getAllValidMoves(b, "white")
        blackMoves == getAllValidMoves(b, "black")
    IN  IF Len(whiteMoves) = 0 /\ Len(blackMoves) > 0 THEN "black"
        ELSE IF Len(blackMoves) = 0 /\ Len(whiteMoves) > 0 THEN "white"
        ELSE "null"

\* checkWinner naming the side that cannot move as the winner
checkWinnerStuckWins(b) ==
    LET whiteCount == Cardinality(cellsOf(b, "white"))
        blackCount == Cardinality(cellsOf(b, "black"))
    IN  IF whiteCount = 0 THEN "black"
        ELSE IF blackCount = 0 THEN "white"
        ELSE LET whiteMoves == getAllValidMoves(b, "white")
                 blackMoves == getAllValidMoves(b, "black")
             IN  IF Len(whiteMoves) = 0 /\ Len(blackMoves) > 0 THEN "white"
                 ELSE IF Len(blackMoves) = 0 /\ Len(whiteMoves) > 0 THEN "black"
                 ELSE "null"

\* checkWinner with `||` for `&&` in the mobility tests
checkWinnerEitherTest(b) ==
    LET whiteCount == Cardinality(cellsOf(b, "white"))
        blackCount == Cardinality(cellsOf(b, "black"))
    IN  IF whiteCount = 0 THEN "black"
        ELSE IF blackCount = 0 THEN "white"
        ELSE LET whiteMoves == getAllValidMoves(b, "white")
                 blackMoves == getAllValidMoves(b, "black")
             IN  IF Len(whiteMoves) = 0 \/ Len(blackMoves) > 0 THEN "black"
                 ELSE IF Len(blackMoves) = 0 \/ Len(whiteMoves) > 0 THEN "white"
                 ELSE "null"

\* returns "white", "black" or "null"
checkWinner(b) ==
    LET whiteCount == Cardinality(cellsOf(b, "white"))
        blackCount == Cardinality(cellsOf(b, "black"))
    IN  IF whiteCount = 0 THEN "black"
        ELSE IF blackCount = 0 THEN "white"
        ELSE LET whiteMoves == getAllValidMoves(b, "white")
                 blackMoves == getAllValidMoves(b, "black")
             IN  IF Len(whiteMoves) = 0 /\ Len(blackMoves) > 0 THEN "black"
                 ELSE IF Len(blackMoves) = 0 /\ Len(whiteMoves) > 0 THEN "white"
                 ELSE "null"

----------------------------------------------------------------------------
(* Board evaluator *)

\* the contribution with a king worth 50
pieceScoreKing50(b, k) ==
    LET row == cellRow(k)
        piece == b[row][cellCol(k)]
        pieceValue == IF piece.isKing THEN 50 ELSE 10
        positionBonus == IF piece.isKing THEN 0
                         ELSE IF piece.type = "black" THEN row
                         ELSE BOARD_SIZE - 1 - row
    IN  IF piece.type = "black" THEN pieceValue + positionBonus
        ELSE 0 - (pieceValue + positionBonus)

\* the contribution of the piece in cell k to `score`
pieceScore(b, k) ==
    LET row == cellRow(k)
        piece == b[row][cellCol(k)]
        pieceValue == IF piece.isKing THEN 15 ELSE 10
        positionBonus == IF piece.isKing THEN 0
                         ELSE IF piece.type = "black" THEN row
                         ELSE BOARD_SIZE - 1 - row
    IN  IF piece.type = "black" THEN pieceValue + positionBonus
        ELSE 0 - (pieceValue + positionBonus)

RECURSIVE sumScores(_, _)
sumScores(b, cells) ==
    IF cells = {} THEN 0
    ELSE LET k == CHOOSE x \in cells : TRUE
         IN  pieceScore(b, k) + sumScores(b, cells \ {k})

evaluateBoard(b) == sumScores(b, occupiedCells(b))

----------------------------------------------------------------------------
(* Search engine *)

Max(a, b) == IF a >= b THEN a ELSE b
Min(a, b) == IF a <= b THEN a ELSE b

\* The search returns a score; `visited` is a ghost counter of the minimax
\* calls made (the call itself included), kept to tell when a cut-off happened,
\* and `nesting` a ghost for the deepest nesting of minimax calls below the
\* call (0 when it makes none).
RECURSIVE minimaxRun(_, _, _, _, _)
RECURSIVE maxLoop(_, _, _, _, _, _, _, _, _)
RECURSIVE minLoop(_, _, _, _, _, _, _, _, _)

\* the `for (const move of moves)` loop of the maximizing branch, from moves[i]
maxLoop(b, moves, i, depth, alpha, beta, maxEval, visited, nesting) ==
    IF i > Len(moves)
    THEN [score |-> maxEval, visited |-> visited, nesting |-> nesting]
    ELSE LET newBoard == makeMove(b, moves[i])
             child == minimaxRun(newBoard, depth - 1, alpha, beta, FALSE)
             evalScore == child.score
             maxEval2 == Max(maxEval, evalScore)
             alpha2 == Max(alpha, evalScore)
             visited2 == visited + child.visited
             nesting2 == Max(nesting, 1 + child.nesting)
         IN  IF beta <= alpha2 THEN [score |-> maxEval2, visited |-> visited2,
                   nesting |-> nesting2]
             ELSE maxLoop(b, moves, i + 1, depth, alpha2, beta, maxEval2, visited2,
                          nesting2)

\* the minimizing loop with the break taken before minEval is updated
minLoopBreakFirst(b, moves, i, depth, alpha, beta, minEval, visited, nesting) ==
    IF i > Len(moves)
    THEN [score |-> minEval, visited |-> visited, nesting |-> nesting]
    ELSE LET newBoard == makeMove(b, moves[i])
             child == minimaxRun(newBoard, depth - 1, alpha, beta, TRUE)
             evalScore == child.score
             minEval2 == Min(minEval, evalScore)
             beta2 == Min(beta, evalScore)
             visited2 == visited + child.visited
             nesting2 == Max(nesting, 1 + child.nesting)
         IN  IF beta2 <= alpha THEN [score |-> minEval, visited |-> visited2,
                   nesting |-> nesting2]
             ELSE minLoop(b, moves, i + 1, depth, alpha, beta2, minEval2, visited2,
                          nesting2)

\* the loop of the minimizing branch, from moves[i]
minLoop(b, moves, i, depth, alpha, beta, minEval, visited, nesting) ==
    IF i > Len(moves)
    THEN [score |-> minEval, visited |-> visited, nesting |-> nesting]
    ELSE LET newBoard == makeMove(b, moves[i])
             child == minimaxRun(newBoard, depth - 1, alpha, beta, TRUE)
             evalScore == child.score
             minEval2 == Min(minEval, evalScore)
             beta2 == Min(beta, evalScore)
             visited2 == visited + child.visited
             nesting2 == Max(nesting, 1 + child.nesting)
         IN  IF beta2 <= alpha THEN [score |-> minEval2, visited |-> visited2,
                   nesting |-> nesting2]
             ELSE minLoop(b, moves, i + 1, depth, alpha, beta2, minEval2, visited2,
                          nesting2)

\* minimax scoring the side that cannot move as the winner
minimaxRunStuckWins(b, depth, alpha, beta, isMaximizing) ==
    LET winner == checkWinner(b)
    IN  IF winner = "black" THEN [score |-> 1000, visited |-> 1, nesting |-> 0]
        ELSE IF winner = "white" THEN [score |-> -1000, visited |-> 1, nesting |-> 0]
        ELSE IF depth = 0 THEN [score |-> evaluateBoard(b), visited |-> 1, nesting |-> 0]
        ELSE LET currentPlayer == IF isMaximizing THEN "black" ELSE "white"
                 moves == getAllValidMoves(b, currentPlayer)
             IN  IF Len(moves) = 0
                 THEN [score |-> IF isMaximizing THEN 1000 ELSE -1000,
                       visited |-> 1, nesting |-> 0]
                 ELSE IF isMaximizing
                 THEN maxLoop(b, moves, 1, depth, alpha, beta, -Infinity, 1, 0)
                 ELSE minLoop(b, moves, 1, depth, alpha, beta, Infinity, 1, 0)

\* minimax testing the depth before the winner
minimaxRunDepthFirst(b, depth, alpha, beta, isMaximizing) ==
    LET winner == checkWinner(b)
    IN  IF depth = 0 THEN [score |-> evaluateBoard(b), visited |-> 1, nesting |-> 0]
        ELSE IF winner = "black" THEN [score |-> 1000, visited |-> 1, nesting |-> 0]
        ELSE IF winner = "white" THEN [score |-> -1000, visited |-> 1, nesting |-> 0]
        ELSE LET currentPlayer == IF isMaximizing THEN "black" ELSE "white"
                 moves == getAllValidMoves(b, currentPlayer)
             IN  IF Len(moves) = 0
                 THEN [score |-> IF isMaximizing THEN -1000 ELSE 1000,
                       visited |-> 1, nesting |-> 0]
                 ELSE IF isMaximizing
                 THEN maxLoop(b, moves, 1, depth, alpha, beta, -Infinity, 1, 0)
                 ELSE minLoop(b, moves, 1, depth, alpha, beta, Infinity, 1, 0)

\* minimax going on at depth 0 and stopping below it (`depth < 0`)
minimaxRunBelowZero(b, depth, alpha, beta, isMaximizing) ==
    LET winner == checkWinner(b)
    IN  IF winner = "black" THEN [score |-> 1000, visited |-> 1, nesting |-> 0]
        ELSE IF winner = "white" THEN [score |-> -1000, visited |-> 1, nesting |-> 0]
        ELSE IF depth < 0 THEN [score |-> evaluateBoard(b), visited |-> 1, nesting |-> 0]
        ELSE LET currentPlayer == IF isMaximizing THEN "black" ELSE "white"
                 moves == getAllValidMoves(b, currentPlayer)
             IN  IF Len(moves) = 0
                 THEN [score |-> IF isMaximizing THEN -1000 ELSE 1000,
                       visited |-> 1, nesting |-> 0]
                 ELSE IF isMaximizing
                 THEN maxLoop(b, moves, 1, depth, alpha, beta, -Infinity, 1, 0)
                 ELSE minLoop(b, moves, 1, depth, alpha, beta, Infinity, 1, 0)

minimaxRun(b, depth, alpha, beta, isMaximizing) ==
    LET winner == checkWinner(b)
    IN  IF winner = "black" THEN [score |-> 1000, visited |-> 1, nesting |-> 0]
        ELSE IF winner = "white" THEN [score |-> -1000, visited |-> 1, nesting |-> 0]
        ELSE IF depth = 0 THEN [score |-> evaluateBoard(b), visited |-> 1, nesting |-> 0]
        ELSE LET currentPlayer == IF isMaximizing THEN "black" ELSE "white"
                 moves == getAllValidMoves(b, currentPlayer)
             IN  IF Len(moves) = 0
                 THEN [score |-> IF isMaximizing THEN -1000 ELSE 1000,
                       visited |-> 1, nesting |-> 0]
                 ELSE IF isMaximizing
                 THEN maxLoop(b, moves, 1, depth, alpha, beta, -Infinity, 1, 0)
                 ELSE minLoop(b, moves, 1, depth, alpha, beta, Infinity, 1, 0)

minimax(b, depth, alpha, beta, isMaximizing) ==
    minimaxRun(b, depth, alpha, beta, isMaximizing).score

----------------------------------------------------------------------------
(* Move evaluator *)

Abs(x) == IF x < 0 THEN -x ELSE x

\* Math.abs(col - 3.5) + Math.abs(row - 3.5): the two halves always add up to
\* an integer, computed here on doubled coordinates
centerDistance(to) == (Abs(2 * to.col - 7) + Abs(2 * to.row - 7)) \div 2

evaluateMove(b, move) ==
    (Len(move.captured) * 100)
    + (IF move.to.row = BOARD_SIZE - 1 THEN 50 ELSE 0)
    + ((7 - centerDistance(move.to)) * 5)
    - (IF move.to.col = 0 \/ move.to.col = 7 THEN 10 ELSE 0)

----------------------------------------------------------------------------
(* Difficulty policy.  Math.random() is the fraction rnd / RandomSteps. *)

RandomSteps == 4

\* Math.floor(Math.random() * n)
randomIndex(rnd, n) == (rnd * n) \div RandomSteps

\* JavaScript arrays are 0-based, sequences 1-based
getRandomMove(moves, rnd) == moves[randomIndex(rnd, Len(moves)) + 1]

\* getBasicMove preferring the far rank of the other side (`m.to.row === 0`)
getBasicMoveRowZero(b, moves, rnd) ==
    LET captures == SelectSeq(moves, isCapture)
        kingMoves == SelectSeq(moves, LAMBDA m : m.to.row = 0)
    IN  IF Len(captures) > 0
        THEN captures[randomIndex(rnd, Len(captures)) + 1]
        ELSE IF Len(kingMoves) > 0
        THEN kingMoves[randomIndex(rnd, Len(kingMoves)) + 1]
        ELSE getRandomMove(moves, rnd)

getBasicMove(b, moves, rnd) ==
    LET captures == SelectSeq(moves, isCapture)
        kingMoves == SelectSeq(moves, LAMBDA m : m.to.row = BOARD_SIZE - 1)
    IN  IF Len(captures) > 0
        THEN captures[randomIndex(rnd, Len(captures)) + 1]
        ELSE IF Len(kingMoves) > 0
        THEN kingMoves[randomIndex(rnd, Len(kingMoves)) + 1]
        ELSE getRandomMove(moves, rnd)

\* the insertion for the comparator `a.score - b.score` (ascending order)
RECURSIVE insertSortedAscending(_, _)
insertSortedAscending(s, x) ==
    IF Len(s) = 0 THEN << x >>
    ELSE IF Head(s).score - x.score > 0 THEN << x >> \o s
    ELSE << Head(s) >> \o insertSortedAscending(Tail(s), x)

\* insert x into the sorted sequence s after every element e with
\* b.score - a.score <= 0 for (a, b) = (e, x): Array.prototype.sort is stable
RECURSIVE insertSorted(_, _)
insertSorted(s, x) ==
    IF Len(s) = 0 THEN << x >>
    ELSE IF x.score - Head(s).score > 0 THEN << x >> \o s
    ELSE << Head(s) >> \o insertSorted(Tail(s), x)

\* scoredMoves.sort((a, b) => b.score - a.score)
RECURSIVE sortScored(_, _, _)
sortScored(scoredMoves, i, acc) ==
    IF i > Len(scoredMoves) THEN acc
    ELSE sortScored(scoredMoves, i + 1, insertSorted(acc, scoredMoves[i]))

getIntermediateMove(b, moves, rnd) ==
    LET scoredMoves == [i \in 1 .. Len(moves) |->
                           [move |-> moves[i], score |-> evaluateMove(b, moves[i])]]
        sorted == sortScored(scoredMoves, 1, << >>)
        topMoves == SubSeq(sorted, 1, Min(3, Len(sorted)))
    IN  topMoves[randomIndex(rnd, Len(topMoves)) + 1].move

\* the loop of getAdvancedMove from moves[i] on, with the best so far
RECURSIVE advancedLoop(_, _, _, _, _, _)
advancedLoop(b, moves, i, depth, bestMove, bestScore) ==
    IF i > Len(moves) THEN bestMove
    ELSE LET newBoard == makeMove(b, moves[i])
             score == minimax(newBoard, depth - 1, -Infinity, Infinity, FALSE)
         IN  IF score > bestScore
             THEN advancedLoop(b, moves, i + 1, depth, moves[i], score)
             ELSE advancedLoop(b, moves, i + 1, depth, bestMove, bestScore)

\* the loop with `bestScore = score` forgotten
RECURSIVE advancedLoopStaleScore(_, _, _, _, _, _)
advancedLoopStaleScore(b, moves, i, depth, bestMove, bestScore) ==
    IF i > Len(moves) THEN bestMove
    ELSE LET newBoard == makeMove(b, moves[i])
             score == minimax(newBoard, depth - 1, -Infinity, Infinity, FALSE)
         IN  IF score > bestScore
             THEN advancedLoopStaleScore(b, moves, i + 1, depth, moves[i], bestScore)
             ELSE advancedLoopStaleScore(b, moves, i + 1, depth, bestMove, bestScore)

getAdvancedMoveStaleScore(b, moves, difficulty) ==
    LET depth == IF difficulty >= 1600 THEN 4 ELSE 3
    IN  advancedLoopStaleScore(b, moves, 1, depth, moves[1], -Infinity)

\* the loop replacing the best move on `score >= bestScore`
RECURSIVE advancedLoopLastWins(_, _, _, _, _, _)
advancedLoopLastWins(b, moves, i, depth, bestMove, bestScore) ==
    IF i > Len(moves) THEN bestMove
    ELSE LET newBoard == makeMove(b, moves[i])
             score == minimax(newBoard, depth - 1, -Infinity, Infinity, FALSE)
         IN  IF score >= bestScore
             THEN advancedLoopLastWins(b, moves, i + 1, depth, moves[i], score)
             ELSE advancedLoopLastWins(b, moves, i + 1, depth, bestMove, bestScore)

getAdvancedMoveLastWins(b, moves, difficulty) ==
    LET depth == IF difficulty >= 1600 THEN 4 ELSE 3
    IN  advancedLoopLastWins(b, moves, 1, depth, moves[1], -Infinity)

getAdvancedMove(b, moves, difficulty) ==
    LET depth == IF difficulty >= 1600 THEN 4 ELSE 3
    IN  advancedLoop(b, moves, 1, depth, moves[1], -Infinity)

\* the absent move (getBotMove returns null)
NoMove == Move(Position(-1, -1), Position(-1, -1), << >>)

\* getBotMove giving up when a single move is left (`moves.length <= 1`)
getBotMoveOffByOne(b, difficulty, rnd) ==
    LET moves == getAllValidMoves(b, "black")
    IN  IF Len(moves) <= 1 THEN NoMove
        ELSE IF difficulty < 400 THEN getRandomMove(moves, rnd)
        ELSE IF difficulty < 800 THEN getBasicMove(b, moves, rnd)
        ELSE IF difficulty < 1200 THEN getIntermediateMove(b, moves, rnd)
        ELSE getAdvancedMove(b, moves, difficulty)

getBotMove(b, difficulty, rnd) ==
    LET moves == getAllValidMoves(b, "black")
    IN  IF Len(moves) = 0 THEN NoMove
        ELSE IF difficulty < 400 THEN getRandomMove(moves, rnd)
        ELSE IF difficulty < 800 THEN getBasicMove(b, moves, rnd)
        ELSE IF difficulty < 1200 THEN getIntermediateMove(b, moves, rnd)
        ELSE getAdvancedMove(b, moves, difficulty)

----------------------------------------------------------------------------
(* Set-up positions: the boards the library functions are called on *)

MaxPieces == 3

DarkSquares ==
    {p \in {Position(row, col) : row \in Rows, col \in Cols} :
        (p.row + p.col) % 2 = 1}

\* where the pieces of a set-up position stand: the top-left corner of the
\* board (rows 0-3, cols 0-3: white promotes there) and two squares of the
\* bottom-left corner (black promotes there)
SetupSquares ==
    {p \in DarkSquares : p.row < 4 /\ p.col < 4}
    \cup {Position(6, 1), Position(7, 0)}

\* a man standing on its own promotion row does not occur in play
PiecesAt(p) ==
    {Piece("white", TRUE), Piece("black", TRUE)}
    \cup (IF p.row = 0 THEN {} ELSE {Piece("white", FALSE)})
    \cup (IF p.row = BOARD_SIZE - 1 THEN {} ELSE {Piece("black", FALSE)})

boardOf(f) ==
    [row \in Rows |-> [col \in Cols |->
        IF Position(row, col) \in DOMAIN f THEN f[Position(row, col)] ELSE Null]]

SetupBoard(b, squares, n) ==
    \E S \in SUBSET squares :
        /\ Cardinality(S) <= n
        /\ \E f \in [S -> UNION {PiecesAt(p) : p \in S}] :
              /\ \A p \in S : f[p] \in PiecesAt(p)
              /\ b = boardOf(f)

----------------------------------------------------------------------------
(* The state of CheckersGame after its first render *)

\* the absent position (selectedPosition null)
NoPosition == Position(-1, -1)

HostInit ==
    /\ game = [currentPlayer |-> "white", selectedPosition |-> NoPosition,
               validMoves |-> << >>, winner |-> "null", difficulty |-> 1000,
               isThinking |-> FALSE, animatingMove |-> NoMove]
    /\ timers = << >>
    /\ lastApplied = "none"
    /\ resets = 0

----------------------------------------------------------------------------
(* Spec: free play from the initial board, either side moving at any time *)

MaxPlies == 4

Init ==
    /\ board = createInitialBoard
    /\ plies = 0
    /\ call = [op |-> "createInitialBoard"]
    /\ HostInit

\* apply(board, move) for a generator move of `side`; the game board is
\* replaced by the returned board
Play(side) ==
    /\ plies < MaxPlies
    /\ LET moves == getAllValidMoves(board, side)
       IN  \E i \in 1 .. Len(moves) :
          LET move == moves[i]
              r == makeMoveCall(board, move)
          IN  /\ board' = r.ret
              /\ call' = [op |-> "makeMove", side |-> side, board |-> board,
                          move |-> move, arg |-> r.arg, ret |-> r.ret]
    /\ plies' = plies + 1
    /\ UNCHANGED hostVars

WhiteMove == Play("white")
BlackMove == Play("black")

Next == WhiteMove \/ BlackMove

Spec == Init /\ [][Next]_vars

----------------------------------------------------------------------------
(* SpecBoards: one library call on each set-up position *)

\* a position beyond MaxPieces: white alone on the board and unable to move
\* (kings on row 0 shut in by their own men on row 1)
WallBoard ==
    [row \in Rows |-> [col \in Cols |->
        IF (row + col) % 2 = 0 THEN Null
        ELSE IF row = 0 THEN Piece("white", TRUE)
        ELSE IF row = 1 THEN Piece("white", FALSE)
        ELSE Null]]

ScenarioBoards == {WallBoard, createInitialBoard}

InitBoards ==
    /\ SetupBoard(board, SetupSquares, MaxPieces) \/ board \in ScenarioBoards
    /\ plies = 0
    /\ call = [op |-> "setup"]
    /\ HostInit

CallGetAllValidMoves ==
    /\ call.op = "setup"
    /\ \E playerType \in {"white", "black"} :
          call' = [op |-> "getAllValidMoves", board |-> board,
                   playerType |-> playerType,
                   ret |-> getAllValidMoves(board, playerType)]
    /\ UNCHANGED <<board, plies>>
    /\ UNCHANGED hostVars

\* board is the caller's array: after the call it holds what the call left in it
CallMakeMove ==
    /\ call.op = "setup"
    /\ \E side \in {"white", "black"} :
          LET moves == getAllValidMoves(board, side)
          IN  \E i \in 1 .. Len(moves) :
              LET move == moves[i]
                  r == makeMoveCall(board, move)
              IN  /\ board' = r.arg
                  /\ call' = [op |-> "makeMove", side |-> side, board |-> board,
                              move |-> move, arg |-> r.arg, ret |-> r.ret]
    /\ UNCHANGED plies
    /\ UNCHANGED hostVars

CallCheckWinner ==
    /\ call.op = "setup"
    /\ call' = [op |-> "checkWinner", board |-> board, ret |-> checkWinner(board)]
    /\ UNCHANGED <<board, plies>>
    /\ UNCHANGED hostVars

NextBoards == CallGetAllValidMoves \/ CallMakeMove \/ CallCheckWinner

SpecBoards == InitBoards /\ [][NextBoards]_vars

----------------------------------------------------------------------------
(* SpecSearch: one call of the search or of the bot on each set-up position *)

MaxDepth == 3

Ratings == {0, 400, 800, 1200, 1600}

\* the search is run on positions of one piece fewer, standing in the three
\* left-hand files of the top-left corner
SearchSquares == {p \in SetupSquares : p.col < 3 /\ p.row + p.col <= 3}

\* positions beyond MaxPieces: every dark square holding the piece of `side`
\* with the largest contribution to evaluateBoard there (a man on its last two
\* rows, a king elsewhere)
HeaviestBoard(side) ==
    [row \in Rows |-> [col \in Cols |->
        IF (row + col) % 2 = 0 THEN Null
        ELSE IF (IF side = "black" THEN row ELSE BOARD_SIZE - 1 - row) > 5
        THEN Piece(side, FALSE)
        ELSE Piece(side, TRUE)]]

\* the heaviest black board with a white king in the corner (7, 0) and the
\* square next to it free: both sides can move
CrowdedBoard ==
    [HeaviestBoard("black") EXCEPT ![7][0] = Piece("white", TRUE), ![6][1] = Null]

\* black men on rows 2 and 3 facing white men on rows 4 and 5: both sides
\* have pieces and neither can step or jump
LockedBoard ==
    [row \in Rows |-> [col \in Cols |->
        IF (row + col) % 2 = 0 THEN Null
        ELSE IF row \in {2, 3} THEN Piece("black", FALSE)
        ELSE IF row \in {4, 5} THEN Piece("white", FALSE)
        ELSE Null]]

SearchScenarioBoards ==
    {HeaviestBoard("black"), HeaviestBoard("white"), CrowdedBoard, LockedBoard}

InitSearch ==
    /\ SetupBoard(board, SearchSquares, MaxPieces - 1)
           \/ board \in SearchScenarioBoards
    /\ plies = 0
    /\ call = [op |-> "setup"]
    /\ HostInit

\* minimax with the full window, as getAdvancedMove calls it
CallMinimax ==
    /\ call.op = "setup"
    /\ \E depth \in 0 .. MaxDepth, isMaximizing \in BOOLEAN :
          LET run == minimaxRun(board, depth, -Infinity, Infinity, isMaximizing)
          IN  call' = [op |-> "minimax", board |-> board, depth |-> depth,
                       isMaximizing |-> isMaximizing,
                       ret |-> run.score, visited |-> run.visited,
                       nesting |-> run.nesting]
    /\ UNCHANGED <<board, plies>>
    /\ UNCHANGED hostVars

\* the tiers below 1200 draw one random number, the advanced tier none
CallGetBotMove ==
    /\ call.op = "setup"
    /\ \E difficulty \in Ratings :
          \E rnd \in (IF difficulty < 1200 THEN 0 .. (RandomSteps - 1) ELSE {0}) :
              call' = [op |-> "getBotMove", board |-> board,
                       difficulty |-> difficulty, rnd |-> rnd,
                       ret |-> getBotMove(board, difficulty, rnd)]
    /\ UNCHANGED <<board, plies>>
    /\ UNCHANGED hostVars

\* the evaluator, as minimax calls it at depth 0
CallEvaluateBoard ==
    /\ call.op = "setup"
    /\ call' = [op |-> "evaluateBoard", board |-> board, ret |-> evaluateBoard(board)]
    /\ UNCHANGED <<board, plies>>
    /\ UNCHANGED hostVars

NextSearch == CallMinimax \/ CallGetBotMove \/ CallEvaluateBoard

SpecSearch == InitSearch /\ [][NextSearch]_vars

----------------------------------------------------------------------------
(* SpecPieces: the generator called on each square of each set-up position *)

\* the squares of the search set-ups and one more, so that a piece can have
\* an occupied neighbour on either side with the square behind it on the board
PieceSquares == SearchSquares \cup {Position(3, 2)}

InitPieces ==
    /\ SetupBoard(board, PieceSquares, MaxPieces) \/ board \in ScenarioBoards
    /\ plies = 0
    /\ call = [op |-> "setup"]
    /\ HostInit

CallGetValidMoves ==
    /\ call.op = "setup"
    /\ \E row \in Rows, col \in Cols :
          call' = [op |-> "getValidMoves", board |-> board,
                   position |-> Position(row, col),
                   ret |-> getValidMoves(board, Position(row, col))]
    /\ UNCHANGED <<board, plies>>
    /\ UNCHANGED hostVars

NextPieces == CallGetValidMoves \/ CallGetAllValidMoves \/ CallMakeMove

SpecPieces == InitPieces /\ [][NextPieces]_vars

----------------------------------------------------------------------------
(* SpecBot: the bot below rating 1200 on each set-up position of one piece
   fewer, with black men one step from promotion among them *)

\* the first and the last rating of each tier below the search tier
LowRatings == {0, 399, 400, 799, 800, 1199}

InitBot ==
    /\ SetupBoard(board, SetupSquares, MaxPieces - 1)
    /\ plies = 0
    /\ call = [op |-> "setup"]
    /\ HostInit

CallGetBotMoveLow ==
    /\ call.op = "setup"
    /\ \E difficulty \in LowRatings, rnd \in 0 .. (RandomSteps - 1) :
          call' = [op |-> "getBotMove", board |-> board,
                   difficulty |-> difficulty, rnd |-> rnd,
                   ret |-> getBotMove(board, difficulty, rnd)]
    /\ UNCHANGED <<board, plies>>
    /\ UNCHANGED hostVars

NextBot == CallGetBotMoveLow

SpecBot == InitBot /\ [][NextBot]_vars

----------------------------------------------------------------------------
(* SpecHost: the CheckersGame component.  An event handler or a timer
   callback runs to its end, React renders once for the state updates it
   made, and the bot effect runs for that render before the next event. *)

MaxHostMoves == 3
MaxResets == 1

\* the difficulty given at the start (medium) and the button below it (easy)
HostRatings == {600, 1000}

\* the delay of the move animation, in ms (the two `}, 400)`)
AnimationDelay == 400

\* Math.max(500, Math.min(1500, difficulty / 2))
thinkingTime(rating) == Max(500, Min(1500, rating \div 2))

\* A pending setTimeout callback: its delay and what its closure holds.
\* kind "human" is the callback of handleCellClick, "think" the outer and
\* "bot" the inner callback of the bot effect.  The ghost field epoch is the
\* number of resets made before the callback was scheduled.
Timer(kind, delay, b, move, rating) ==
    [kind |-> kind, delay |-> delay, board |-> b, move |-> move,
     difficulty |-> rating, epoch |-> resets]

\* setTimeout: the callbacks fire in the order of their due times.  Every
\* callback pending when one is added has a delay of at most the new one's
\* (a "think" callback, the only one with a longer delay, is cleared by the
\* render that follows the scheduling of any other: TimerOrder), so the new
\* one is due last.
setTimeout(tq, t) == Append(tq, t)

\* the pending callbacks stand in the order of their delays
TimerOrder ==
    \A i \in 1 .. Len(timers), j \in 1 .. Len(timers) :
        i < j => timers[i].delay <= timers[j].delay

\* the cleanup of the bot effect: clearTimeout(timer)
clearTimeout(tq) == SelectSeq(tq, LAMBDA t : t.kind # "think")

\* the number of move applications pending
pendingMoves == Len(SelectSeq(timers, LAMBDA t : t.kind # "think"))

\* The render that follows an event.  g is the component state the event's
\* updates leave, b the board, boardSet whether setBoard was called (always
\* with a new array), tq the timers then pending.  When a dependency of the
\* bot effect changed, its cleanup runs and the effect runs again (lines
\* 104-137): with black to move, no winner and no animation it sets
\* isThinking and schedules the outer callback on this render's board and
\* difficulty.
Render(g, b, boardSet, tq) ==
    LET changed == \/ boardSet
                   \/ g.currentPlayer # game.currentPlayer
                   \/ g.winner # game.winner
                   \/ g.difficulty # game.difficulty
                   \/ g.animatingMove # game.animatingMove
        botToMove == /\ g.currentPlayer = "black"
                     /\ g.winner = "null"
                     /\ g.animatingMove = NoMove
    IN  /\ board' = b
        /\ IF changed /\ botToMove
           THEN /\ game' = [g EXCEPT !.isThinking = TRUE]
                /\ timers' = setTimeout(clearTimeout(tq),
                                 Timer("think", thinkingTime(g.difficulty), b,
                                       NoMove, g.difficulty))
           ELSE /\ game' = g
                /\ timers' = IF changed THEN clearTimeout(tq) ELSE tq

InitHost ==
    /\ board = createInitialBoard
    /\ plies = 0
    /\ call = [op |-> "createInitialBoard"]
    /\ HostInit

\* handleCellClick(row, col), lines 47-101; allMoves is
\* getAllValidMoves(board, 'white') of line 82, the same for every cell
handleCellClick(row, col, allMoves) ==
    /\ game.winner = "null"
    /\ game.currentPlayer = "white"
    /\ game.animatingMove = NoMove
    /\ LET clickedPiece == board[row][col]
           targets == SelectSeq(game.validMoves,
                                LAMBDA m : m.to = Position(row, col))
       IN  IF game.selectedPosition # NoPosition /\ Len(targets) > 0
           THEN \* a valid move target: animate, apply after the delay
                LET move == targets[1]
                IN  /\ plies + pendingMoves < MaxHostMoves
                    /\ Render([game EXCEPT !.animatingMove = move], board, FALSE,
                              setTimeout(timers,
                                  Timer("human", AnimationDelay, board, move,
                                        game.difficulty)))
           ELSE IF clickedPiece.type = "white"
           THEN LET pieceMoves == getValidMoves(board, Position(row, col))
                    hasCaptures == \E i \in 1 .. Len(allMoves) :
                                       isCapture(allMoves[i])
                    pieceHasCaptures == \E i \in 1 .. Len(pieceMoves) :
                                            isCapture(pieceMoves[i])
                IN  IF hasCaptures /\ ~pieceHasCaptures
                    THEN UNCHANGED <<board, game, timers>>
                    ELSE Render([game EXCEPT !.selectedPosition = Position(row, col),
                                             !.validMoves = pieceMoves],
                                board, FALSE, timers)
           ELSE Render([game EXCEPT !.selectedPosition = NoPosition,
                                    !.validMoves = << >>],
                       board, FALSE, timers)
    /\ call' = [op |-> "handleCellClick"]
    /\ UNCHANGED <<plies, lastApplied, resets>>

HandleCellClick ==
    LET allMoves == getAllValidMoves(board, "white")
    IN  \E row \in Rows, col \in Cols : handleCellClick(row, col, allMoves)

\* resetGame, lines 38-45
resetGame ==
    /\ resets < MaxResets
    /\ Render([game EXCEPT !.currentPlayer = "white",
                           !.selectedPosition = NoPosition,
                           !.validMoves = << >>,
                           !.winner = "null",
                           !.animatingMove = NoMove],
              createInitialBoard, TRUE, timers)
    /\ lastApplied' = "none"
    /\ resets' = resets + 1
    /\ call' = [op |-> "resetGame"]
    /\ UNCHANGED plies

\* setDifficulty from a button of the selector, which is disabled while
\* `currentPlayer !== 'white' && !winner`
setDifficulty(rating) ==
    /\ ~(game.currentPlayer # "white" /\ game.winner = "null")
    /\ rating # game.difficulty
    /\ Render([game EXCEPT !.difficulty = rating], board, FALSE, timers)
    /\ call' = [op |-> "setDifficulty"]
    /\ UNCHANGED <<plies, lastApplied, resets>>

SetDifficulty == \E rating \in HostRatings : setDifficulty(rating)

\* the callback of handleCellClick fires (lines 61-74): the move is applied
\* to the board of the render the click was handled in
HumanMoveTimeout ==
    /\ Len(timers) > 0
    /\ Head(timers).kind = "human"
    /\ LET t == Head(timers)
           newBoard == makeMove(t.board, t.move)
           gameWinner == checkWinner(newBoard)
       IN  /\ Render([game EXCEPT
                         !.selectedPosition = NoPosition,
                         !.validMoves = << >>,
                         !.animatingMove = NoMove,
                         !.winner = IF gameWinner # "null" THEN gameWinner ELSE @,
                         !.currentPlayer = IF gameWinner # "null" THEN @ ELSE "black"],
                     newBoard, TRUE, Tail(timers))
           /\ call' = [op |-> "applyMove", side |-> "white", current |-> board,
                       board |-> t.board, move |-> t.move, ret |-> newBoard,
                       previous |-> lastApplied, epoch |-> t.epoch]
    /\ lastApplied' = "white"
    /\ plies' = plies + 1
    /\ UNCHANGED resets

\* the outer callback of the bot effect fires (lines 110-133)
BotThinkTimeout ==
    /\ Len(timers) > 0
    /\ Head(timers).kind = "think"
    /\ LET t == Head(timers)
       IN  \E rnd \in 0 .. (RandomSteps - 1) :
              LET botMove == getBotMove(t.board, t.difficulty, rnd)
              IN  IF botMove # NoMove
                  THEN /\ plies + pendingMoves < MaxHostMoves
                       /\ Render([game EXCEPT !.animatingMove = botMove], board,
                                 FALSE,
                                 setTimeout(Tail(timers),
                                     Timer("bot", AnimationDelay, t.board, botMove,
                                           t.difficulty)))
                  ELSE Render([game EXCEPT !.winner = "white",
                                           !.isThinking = FALSE],
                              board, FALSE, Tail(timers))
    /\ call' = [op |-> "getBotMove"]
    /\ UNCHANGED <<plies, lastApplied, resets>>

\* the inner callback of the bot effect fires (lines 116-128)
BotMoveTimeout ==
    /\ Len(timers) > 0
    /\ Head(timers).kind = "bot"
    /\ LET t == Head(timers)
           newBoard == makeMove(t.board, t.move)
           gameWinner == checkWinner(newBoard)
       IN  /\ Render([game EXCEPT
                         !.animatingMove = NoMove,
                         !.isThinking = FALSE,
                         !.winner = IF gameWinner # "null" THEN gameWinner ELSE @,
                         !.currentPlayer = IF gameWinner # "null" THEN @ ELSE "white"],
                     newBoard, TRUE, Tail(timers))
           /\ call' = [op |-> "applyMove", side |-> "black", current |-> board,
                       board |-> t.board, move |-> t.move, ret |-> newBoard,
                       previous |-> lastApplied, epoch |-> t.epoch]
    /\ lastApplied' = "black"
    /\ plies' = plies + 1
    /\ UNCHANGED resets

NextHost ==
    \/ HandleCellClick
    \/ resetGame
    \/ SetDifficulty
    \/ HumanMoveTimeout
    \/ BotThinkTimeout
    \/ BotMoveTimeout

SpecHost == InitHost /\ [][NextHost]_vars

----------------------------------------------------------------------------
(* SpecHostLate: the CheckersGame component late in a game.  LateGame is a
   game the component can play from the initial board: every move is one the
   generator offers the side to move (a bot rated under 400 takes any of
   them), and checkWinner returns null after each. *)

\* 22 moves without a capture, white first:
\* << from.row, from.col, to.row, to.col >>
LateGame ==
    << <<5, 6, 4, 7>>, <<2, 7, 3, 6>>, <<5, 0, 4, 1>>, <<2, 3, 3, 4>>,
       <<5, 4, 4, 3>>, <<1, 2, 2, 3>>, <<6, 3, 5, 4>>, <<0, 1, 1, 2>>,
       <<7, 2, 6, 3>>, <<2, 1, 3, 0>>, <<6, 1, 5, 0>>, <<3, 4, 4, 5>>,
       <<6, 5, 5, 6>>, <<2, 3, 3, 4>>, <<7, 0, 6, 1>>, <<1, 6, 2, 7>>,
       <<7, 6, 6, 5>>, <<1, 2, 2, 1>>, <<4, 1, 3, 2>>, <<0, 5, 1, 6>>,
       <<5, 0, 4, 1>>, <<0, 3, 1, 2>> >>

LateGameMove(i) ==
    Move(Position(LateGame[i][1], LateGame[i][2]),
         Position(LateGame[i][3], LateGame[i][4]), << >>)

\* the board after the moves i .. Len(LateGame) are applied to b
RECURSIVE playGame(_, _)
playGame(b, i) ==
    IF i > Len(LateGame) THEN b
    ELSE playGame(makeMove(b, LateGameMove(i)), i + 1)

\* the moves i .. Len(LateGame) can be played from b: each is a move of
\* getAllValidMoves for the side to move and leaves no winner
RECURSIVE gamePlayable(_, _)
gamePlayable(b, i) ==
    IF i > Len(LateGame) THEN TRUE
    ELSE LET side == IF i % 2 = 1 THEN "white" ELSE "black"
             moves == getAllValidMoves(b, side)
             newBoard == makeMove(b, LateGameMove(i))
         IN  /\ \E k \in 1 .. Len(moves) : moves[k] = LateGameMove(i)
             /\ checkWinner(newBoard) = "null"
             /\ gamePlayable(newBoard, i + 1)

\* the component after the bot's last move of LateGame was applied; plies
\* counts the moves applied from here on
InitHostLate ==
    /\ gamePlayable(createInitialBoard, 1)
    /\ board = playGame(createInitialBoard, 1)
    /\ plies = 0
    /\ call = [op |-> "render"]
    /\ game = [currentPlayer |-> "white", selectedPosition |-> NoPosition,
               validMoves |-> << >>, winner |-> "null", difficulty |-> 1000,
               isThinking |-> FALSE, animatingMove |-> NoMove]
    /\ timers = << >>
    /\ lastApplied = "black"
    /\ resets = 0

SpecHostLate == InitHostLate /\ [][NextHost]_vars

----------------------------------------------------------------------------

(* Vocabulary of the properties, stated on the board alone *)

At(b, p) == b[p.row][p.col]

Opponent(side) == IF side = "white" THEN "black" ELSE "white"

OnBoard(p) == p.row \in Rows /\ p.col \in Cols

AllSquares == {Position(row, col) : row \in Rows, col \in Cols}

\* the row steps the rules allow a piece
LegalRowSteps(piece) ==
    IF piece.isKing THEN {-1, 1}
    ELSE IF piece.type = "white" THEN {-1}
    ELSE {1}

Shift(p, dr, dc, n) == Position(p.row + n * dr, p.col + n * dc)

\* the piece on p can jump over an adjacent opposing piece in direction (dr, dc)
CanJump(b, p, dr, dc) ==
    /\ OnBoard(Shift(p, dr, dc, 1))
    /\ At(b, Shift(p, dr, dc, 1)).type = Opponent(At(b, p).type)
    /\ OnBoard(Shift(p, dr, dc, 2))
    /\ At(b, Shift(p, dr, dc, 2)) = Null

\* the piece on p can step to the adjacent square in direction (dr, dc)
CanStep(b, p, dr, dc) ==
    /\ OnBoard(Shift(p, dr, dc, 1))
    /\ At(b, Shift(p, dr, dc, 1)) = Null

PiecesOf(b, side) == {p \in AllSquares : At(b, p).type = side}

CaptureAvailable(b, side) ==
    \E p \in PiecesOf(b, side) :
        \E dr \in LegalRowSteps(At(b, p)), dc \in {-1, 1} : CanJump(b, p, dr, dc)

StepAvailable(b, side) ==
    \E p \in PiecesOf(b, side) :
        \E dr \in LegalRowSteps(At(b, p)), dc \in {-1, 1} : CanStep(b, p, dr, dc)

SeqRange(s) == {s[i] : i \in 1 .. Len(s)}

----------------------------------------------------------------------------
(* Move generator: C1, C2 *)

\* C1: forced capture.  If some piece of the side has a capture available,
\* every move getAllValidMoves returns is a capture; otherwise every move it
\* returns is a simple move.
C1_ForcedCapture ==
    call.op = "getAllValidMoves" =>
        IF CaptureAvailable(call.board, call.playerType)
        THEN \A m \in SeqRange(call.ret) : isCapture(m)
        ELSE \A m \in SeqRange(call.ret) : ~isCapture(m)

\* a capture is available while another piece of the side could only step
C1_Witness ==
    /\ call.op = "getAllValidMoves"
    /\ CaptureAvailable(call.board, call.playerType)
    /\ \E p \in PiecesOf(call.board, call.playerType) :
          /\ \E dr \in LegalRowSteps(At(call.board, p)), dc \in {-1, 1} :
                CanStep(call.board, p, dr, dc)
          /\ \A dr \in LegalRowSteps(At(call.board, p)), dc \in {-1, 1} :
                ~CanJump(call.board, p, dr, dc)
    /\ Len(call.ret) > 0

\* C2: every move of getAllValidMoves(board, side) starts on a piece of the
\* side, ends on an on-board square that is empty in the board, and is a
\* diagonal step of 1 (simple move) or 2 (capture) in a row direction legal
\* for the piece.
C2_MovesLegal ==
    call.op = "getAllValidMoves" =>
        \A m \in SeqRange(call.ret) :
            LET dr == m.to.row - m.from.row
                dc == m.to.col - m.from.col
                n == IF isCapture(m) THEN 2 ELSE 1
            IN  /\ OnBoard(m.from)
                /\ At(call.board, m.from).type = call.playerType
                /\ OnBoard(m.to)
                /\ At(call.board, m.to) = Null
                /\ dc \in {-n, n}
                /\ \E step \in LegalRowSteps(At(call.board, m.from)) : dr = n * step

\* a king moves against the direction of its side's men, and a man captures
C2_Witness ==
    /\ call.op = "getAllValidMoves"
    /\ \E m \in SeqRange(call.ret) :
          /\ At(call.board, m.from) = Piece("white", TRUE)
          /\ m.to.row > m.from.row
    /\ \E m \in SeqRange(call.ret) :
          /\ ~At(call.board, m.from).isKing
          /\ isCapture(m)

----------------------------------------------------------------------------
(* Move applicator: C3, C4 *)

\* the squares a move touches
Touched(m) == {m.from, m.to} \cup SeqRange(m.captured)

\* C3: makeMove on a generator move returns a board with the moved piece at
\* the destination, the origin and the captured squares empty and every other
\* square as in the input board; the input board is left as it was.
C3_ApplyFrame ==
    call.op = "makeMove" =>
        /\ At(call.ret, call.move.to).type = At(call.board, call.move.from).type
        /\ At(call.ret, call.move.to).type = call.side
        /\ At(call.ret, call.move.from) = Null
        /\ \A p \in SeqRange(call.move.captured) : At(call.ret, p) = Null
        /\ \A p \in AllSquares \ Touched(call.move) :
              At(call.ret, p) = At(call.board, p)
        /\ call.arg = call.board

\* a capture was applied
C3_Witness ==
    /\ call.op = "makeMove"
    /\ isCapture(call.move)
    /\ At(call.board, call.move.captured[1]).type = Opponent(call.side)
    /\ call.ret # call.board

\* C4: after makeMove of a generator move the moved piece is a king exactly
\* if it was a king before, or is white and lands on row 0, or is black and
\* lands on row 7; no other piece changes its king flag.
C4_Promotion ==
    call.op = "makeMove" =>
        LET piece == At(call.board, call.move.from)
        IN  /\ At(call.ret, call.move.to).isKing <=>
                  \/ piece.isKing
                  \/ piece.type = "white" /\ call.move.to.row = 0
                  \/ piece.type = "black" /\ call.move.to.row = 7
            /\ \A p \in AllSquares \ Touched(call.move) :
                  At(call.ret, p).isKing = At(call.board, p).isKing

\* a black man is crowned on row 7 while a king elsewhere stays a king
C4_Witness ==
    /\ call.op = "makeMove"
    /\ At(call.board, call.move.from) = Piece("black", FALSE)
    /\ call.move.to.row = 7
    /\ At(call.ret, call.move.to) = Piece("black", TRUE)
    /\ \E p \in AllSquares \ Touched(call.move) : At(call.ret, p).isKing

----------------------------------------------------------------------------
(* Terminal detector: C6, C7, C8 *)

HasMoves(b, side) == Len(getAllValidMoves(b, side)) > 0

\* C6: when exactly one side has no piece, checkWinner returns the other
\* side, whether or not that side can move.
C6_NoPiecesLoses ==
    call.op = "checkWinner" =>
        /\ (PiecesOf(call.board, "white") = {} /\ PiecesOf(call.board, "black") # {})
              => call.ret = "black"
        /\ (PiecesOf(call.board, "black") = {} /\ PiecesOf(call.board, "white") # {})
              => call.ret = "white"

\* the side left on the board wins although it has no legal move
C6_Witness ==
    /\ call.op = "checkWinner"
    /\ PiecesOf(call.board, "black") = {}
    /\ PiecesOf(call.board, "white") # {}
    /\ ~StepAvailable(call.board, "white")
    /\ ~CaptureAvailable(call.board, "white")
    /\ call.ret = "white"

\* C7: when both sides have a piece, one side has no move and the other has
\* one, checkWinner returns the side that has moves.
C7_ImmobileLoses ==
    call.op = "checkWinner" =>
        \A side \in {"white", "black"} :
            (/\ PiecesOf(call.board, "white") # {}
             /\ PiecesOf(call.board, "black") # {}
             /\ HasMoves(call.board, side)
             /\ ~HasMoves(call.board, Opponent(side)))
            => call.ret = side

\* white has a piece but cannot move, black can: black wins
C7_Witness ==
    /\ call.op = "checkWinner"
    /\ PiecesOf(call.board, "white") # {}
    /\ PiecesOf(call.board, "black") # {}
    /\ ~StepAvailable(call.board, "white")
    /\ ~CaptureAvailable(call.board, "white")
    /\ StepAvailable(call.board, "black")
    /\ call.ret = "black"

\* C8 as stated: checkWinner returns the absent result whenever both sides
\* have pieces and at least one side has a legal move.
C8_Original ==
    call.op = "checkWinner" =>
        ((/\ PiecesOf(call.board, "white") # {}
         /\ PiecesOf(call.board, "black") # {}
         /\ (HasMoves(call.board, "white") \/ HasMoves(call.board, "black")))
         => call.ret = "null")

\* C8 amended: checkWinner returns the absent result whenever both sides have
\* pieces and both sides have a legal move.
C8_NoWinnerYet ==
    call.op = "checkWinner" =>
        ((/\ PiecesOf(call.board, "white") # {}
         /\ PiecesOf(call.board, "black") # {}
         /\ HasMoves(call.board, "white")
         /\ HasMoves(call.board, "black"))
         => call.ret = "null")

\* both sides have pieces and moves, one of them a capture: no winner
C8_Witness ==
    /\ call.op = "checkWinner"
    /\ StepAvailable(call.board, "white")
    /\ CaptureAvailable(call.board, "black")
    /\ call.ret = "null"

----------------------------------------------------------------------------
(* Dark squares along a game: C5 *)

\* C5: in the initial board and in every board reached from it by generator
\* moves of either side in any order, every occupied square has row + col odd
\* (every light square is empty).
C5_DarkSquares ==
    \A p \in AllSquares : At(board, p) # Null => (p.row + p.col) % 2 = 1

\* both sides have moved and a capture has just been applied
C5_Witness ==
    /\ plies >= 3
    /\ call.op = "makeMove"
    /\ isCapture(call.move)
    /\ Cardinality(PiecesOf(board, "white")) + Cardinality(PiecesOf(board, "black")) = 23

----------------------------------------------------------------------------
(* Search: C9, C10 *)

SetMax(S) == CHOOSE v \in S : \A w \in S : v >= w
SetMin(S) == CHOOSE v \in S : \A w \in S : v <= w

\* the reference: minimax over the same generator, applicator, terminal
\* detector and evaluator, visiting every move
RECURSIVE exhaustive(_, _, _)
exhaustive(b, depth, isMaximizing) ==
    LET winner == checkWinner(b)
        moves == getAllValidMoves(b, IF isMaximizing THEN "black" ELSE "white")
        children == {exhaustive(makeMove(b, m), depth - 1, ~isMaximizing) :
                        m \in SeqRange(moves)}
    IN  IF winner = "black" THEN 1000
        ELSE IF winner = "white" THEN -1000
        ELSE IF depth = 0 THEN evaluateBoard(b)
        ELSE IF Len(moves) = 0 THEN (IF isMaximizing THEN -1000 ELSE 1000)
        ELSE IF isMaximizing THEN SetMax(children)
        ELSE SetMin(children)

\* the number of positions the reference visits
RECURSIVE exhaustiveVisited(_, _, _)
RECURSIVE sumVisited(_, _, _, _, _)
sumVisited(b, moves, i, depth, isMaximizing) ==
    IF i > Len(moves) THEN 0
    ELSE exhaustiveVisited(makeMove(b, moves[i]), depth - 1, ~isMaximizing)
         + sumVisited(b, moves, i + 1, depth, isMaximizing)

exhaustiveVisited(b, depth, isMaximizing) ==
    IF checkWinner(b) # "null" \/ depth = 0 THEN 1
    ELSE 1 + sumVisited(b, getAllValidMoves(b, IF isMaximizing THEN "black" ELSE "white"),
                        1, depth, isMaximizing)

\* C9: minimax called with the full window returns the score of the
\* unpruned exhaustive minimax at the same depth and side to move.
C9_PruningCorrect ==
    call.op = "minimax" =>
        call.ret = exhaustive(call.board, call.depth, call.isMaximizing)

\* a cut-off happened (fewer positions visited than the reference visits) and
\* the score comes from the leaves' evaluation
C9_Witness ==
    /\ call.op = "minimax"
    /\ call.depth >= 2
    /\ call.visited < exhaustiveVisited(call.board, call.depth, call.isMaximizing)
    /\ call.ret > -1000
    /\ call.ret < 1000

\* the search score of a move: minimax of the board after it, at depth - 1,
\* white to move
searchScore(b, difficulty, m) ==
    minimax(makeMove(b, m), (IF difficulty >= 1600 THEN 4 ELSE 3) - 1,
            -Infinity, Infinity, FALSE)

\* C10: at rating >= 1200, on a board with a legal black move, no legal move
\* has a strictly higher search score than the move getBotMove returns.
C10_BestScore ==
    (call.op = "getBotMove" /\ call.difficulty >= 1200
        /\ HasMoves(call.board, "black")) =>
        LET chosen == searchScore(call.board, call.difficulty, call.ret)
        IN  \A m \in SeqRange(getAllValidMoves(call.board, "black")) :
                chosen >= searchScore(call.board, call.difficulty, m)

\* the move returned is not the first generated and beats another one
C10_Witness ==
    /\ call.op = "getBotMove"
    /\ call.difficulty >= 1200
    /\ HasMoves(call.board, "black")
    /\ call.ret # getAllValidMoves(call.board, "black")[1]
    /\ \E m \in SeqRange(getAllValidMoves(call.board, "black")) :
          searchScore(call.board, call.difficulty, call.ret)
              > searchScore(call.board, call.difficulty, m)

----------------------------------------------------------------------------
(* Difficulty policy: C11 *)

\* C11: getBotMove returns null exactly when black has no legal move on the
\* board; otherwise, at every rating and for every random outcome, the move
\* it returns is one of getAllValidMoves(board, "black").
C11_BotMoveLegal ==
    call.op = "getBotMove" =>
        LET moves == getAllValidMoves(call.board, "black")
        IN  /\ (call.ret = NoMove) <=> (Len(moves) = 0)
            /\ (Len(moves) > 0) => (call.ret \in SeqRange(moves))

\* a capture is returned on a board where another black piece could step, and
\* it is the only legal move
C11_Witness ==
    /\ call.op = "getBotMove"
    /\ call.ret # NoMove
    /\ isCapture(call.ret)
    /\ Len(getAllValidMoves(call.board, "black")) = 1
    /\ StepAvailable(call.board, "black")

----------------------------------------------------------------------------
(* Shape of the generated moves: C12 *)

\* the moves a generator call returned
Generated ==
    IF call.op \in {"getValidMoves", "getAllValidMoves"}
    THEN SeqRange(call.ret) ELSE {}

\* the number of pieces of `side` on the board
Count(b, side) == Cardinality(PiecesOf(b, side))

\* C12: a generated move with a captured square has exactly one, the square
\* midway between origin and destination, holding a piece of the other side,
\* and its destination is two diagonal steps away; a generated move without
\* one goes one diagonal step.  Applying a generated move takes at most one
\* piece from the other side and none from the mover's.
C12_OneCapture ==
    /\ \A m \in Generated :
          LET dr == m.to.row - m.from.row
              dc == m.to.col - m.from.col
          IN  IF isCapture(m)
              THEN /\ Len(m.captured) = 1
                   /\ 2 * m.captured[1].row = m.from.row + m.to.row
                   /\ 2 * m.captured[1].col = m.from.col + m.to.col
                   /\ At(call.board, m.captured[1]).type
                          = Opponent(At(call.board, m.from).type)
                   /\ dr \in {-2, 2} /\ dc \in {-2, 2}
              ELSE /\ m.captured = << >>
                   /\ dr \in {-1, 1} /\ dc \in {-1, 1}
    /\ call.op = "makeMove" =>
          /\ Count(call.ret, Opponent(call.side))
                 >= Count(call.board, Opponent(call.side)) - 1
          /\ Count(call.ret, call.side) = Count(call.board, call.side)

\* a piece jumps one piece while a piece of its own side stands next to it
\* with the square behind that one free
C12_Witness ==
    /\ call.op = "getValidMoves"
    /\ \E m \in SeqRange(call.ret) : isCapture(m)
    /\ \E dr \in LegalRowSteps(At(call.board, call.position)), dc \in {-1, 1} :
          /\ OnBoard(Shift(call.position, dr, dc, 2))
          /\ At(call.board, Shift(call.position, dr, dc, 1)).type
                 = At(call.board, call.position).type
          /\ At(call.board, Shift(call.position, dr, dc, 2)) = Null

----------------------------------------------------------------------------
(* Initial board: C13 *)

\* C13: createInitialBoard has 12 black and 12 white pieces, none a king, all
\* on squares with row + col odd, black on rows 0-2, white on rows 5-7, rows
\* 3 and 4 empty; and checkWinner of it is null.
C13_InitialBoard ==
    (call.op = "checkWinner" /\ call.board = createInitialBoard) =>
        /\ Count(call.board, "black") = 12
        /\ Count(call.board, "white") = 12
        /\ \A p \in AllSquares :
              LET piece == At(call.board, p)
              IN  /\ piece # Null =>
                        /\ ~piece.isKing
                        /\ (p.row + p.col) % 2 = 1
                        /\ piece.type \in {"black", "white"}
                  /\ piece.type = "black" => p.row \in 0 .. 2
                  /\ piece.type = "white" => p.row \in 5 .. 7
                  /\ p.row \in {3, 4} => piece = Null
        /\ call.ret = "null"

\* checkWinner has been called on the initial board, where both sides can step
C13_Witness ==
    /\ call.op = "checkWinner"
    /\ call.board = createInitialBoard
    /\ Count(call.board, "black") + Count(call.board, "white") = 24
    /\ StepAvailable(call.board, "white")
    /\ StepAvailable(call.board, "black")

----------------------------------------------------------------------------
(* Basic and intermediate tiers: C16, C17 *)

\* the legal black moves of the board of the call
LegalBlack == SeqRange(getAllValidMoves(call.board, "black"))

\* C16: at a rating from 400 to 799, on a board with a legal black move, the
\* move returned is a capture if some legal move is a capture; otherwise it
\* ends on row 7 if some legal move ends on row 7; otherwise it is any legal
\* move.
C16_BasicPreference ==
    (call.op = "getBotMove" /\ call.difficulty >= 400 /\ call.difficulty < 800
        /\ LegalBlack # {}) =>
        /\ call.ret \in LegalBlack
        /\ IF \E m \in LegalBlack : isCapture(m) THEN isCapture(call.ret)
           ELSE (\E m \in LegalBlack : m.to.row = 7) => (call.ret.to.row = 7)

\* no capture is legal, a move to row 7 is returned and it is not the move a
\* plain random pick would return
C16_Witness ==
    /\ call.op = "getBotMove"
    /\ call.difficulty >= 400 /\ call.difficulty < 800
    /\ LegalBlack # {}
    /\ \A m \in LegalBlack : ~isCapture(m)
    /\ call.ret.to.row = 7
    /\ getRandomMove(getAllValidMoves(call.board, "black"), call.rnd).to.row # 7

\* C17: at a rating from 800 to 1199, on a board with a legal black move, at
\* most two legal moves have a strictly higher evaluateMove score than the
\* move returned, whatever the random number.
C17_TopThree ==
    (call.op = "getBotMove" /\ call.difficulty >= 800 /\ call.difficulty < 1200
        /\ LegalBlack # {}) =>
        /\ call.ret \in LegalBlack
        /\ Cardinality({m \in LegalBlack :
               evaluateMove(call.board, m) > evaluateMove(call.board, call.ret)}) <= 2

\* the third best of at least four moves is returned, and a legal move scores
\* strictly lower
C17_Witness ==
    /\ call.op = "getBotMove"
    /\ call.difficulty >= 800 /\ call.difficulty < 1200
    /\ Cardinality(LegalBlack) >= 4
    /\ Cardinality({m \in LegalBlack :
           evaluateMove(call.board, m) > evaluateMove(call.board, call.ret)}) = 2
    /\ \E m \in LegalBlack :
           evaluateMove(call.board, m) < evaluateMove(call.board, call.ret)

----------------------------------------------------------------------------
(* Generator against a reference: C18 *)

\* the captures of the piece on p: an adjacent piece of the other side in a
\* legal direction, the square behind it on the board and empty
RefCaptures(b, p) ==
    {Move(p, Shift(p, d[1], d[2], 2), << Shift(p, d[1], d[2], 1) >>) :
        d \in {e \in LegalRowSteps(At(b, p)) \X {-1, 1} : CanJump(b, p, e[1], e[2])}}

\* the steps of the piece on p to an empty adjacent square in a legal direction
RefSteps(b, p) ==
    {Move(p, Shift(p, d[1], d[2], 1), << >>) :
        d \in {e \in LegalRowSteps(At(b, p)) \X {-1, 1} : CanStep(b, p, e[1], e[2])}}

RefPiece(b, p) ==
    IF At(b, p) = Null THEN {}
    ELSE IF RefCaptures(b, p) # {} THEN RefCaptures(b, p)
    ELSE RefSteps(b, p)

RefSide(b, side) ==
    LET all == UNION {RefPiece(b, p) : p \in PiecesOf(b, side)}
    IN  IF \E m \in all : isCapture(m) THEN {m \in all : isCapture(m)} ELSE all

\* C18: getValidMoves returns nothing for an empty square; for a piece it
\* returns exactly its captures when it has one and exactly its steps when it
\* has none; getAllValidMoves returns the union of these over the pieces of
\* the side, cut down to the captures when there is one.  No move is
\* returned twice.
C18_Reference ==
    /\ call.op = "getValidMoves" =>
          /\ SeqRange(call.ret) = RefPiece(call.board, call.position)
          /\ Len(call.ret) = Cardinality(RefPiece(call.board, call.position))
    /\ call.op = "getAllValidMoves" =>
          /\ SeqRange(call.ret) = RefSide(call.board, call.playerType)
          /\ Len(call.ret) = Cardinality(RefSide(call.board, call.playerType))

\* the piece asked about can both jump and step, and only the jump is returned
C18_Witness ==
    /\ call.op = "getValidMoves"
    /\ RefCaptures(call.board, call.position) # {}
    /\ RefSteps(call.board, call.position) # {}
    /\ SeqRange(call.ret) = RefCaptures(call.board, call.position)

----------------------------------------------------------------------------
(* Terminal scores of the search: C19 *)

\* C19: minimax returns 1000 when checkWinner of the board is black and -1000
\* when it is white, at every depth, depth 0 included; at depth 0 it returns
\* evaluateBoard of the board when checkWinner is null.
C19_TerminalFirst ==
    call.op = "minimax" =>
        LET winner == checkWinner(call.board)
        IN  /\ winner = "black" => call.ret = 1000
            /\ winner = "white" => call.ret = -1000
            /\ (winner = "null" /\ call.depth = 0) =>
                   call.ret = evaluateBoard(call.board)

\* at depth 0 a side with pieces left has lost, and the score returned is not
\* the evaluation of the board
C19_Witness ==
    /\ call.op = "minimax"
    /\ call.depth = 0
    /\ checkWinner(call.board) = "black"
    /\ Count(call.board, "white") > 0
    /\ call.ret = 1000
    /\ evaluateBoard(call.board) < 0

----------------------------------------------------------------------------
(* Range of the scores: C20 *)

\* C20: on a board with its pieces on dark squares evaluateBoard is smaller
\* than 1000 in absolute value (a piece counts for at most 17 and there are
\* at most 32 dark squares); every value minimax returns lies in -1000 .. 1000,
\* and on an undecided board at depth 0 strictly inside.
C20_ScoreRange ==
    /\ call.op = "evaluateBoard" =>
          /\ Abs(call.ret) <= 17 * (Count(call.board, "black") + Count(call.board, "white"))
          /\ Count(call.board, "black") + Count(call.board, "white") <= 32
          /\ Abs(call.ret) < 1000
    /\ call.op = "minimax" =>
          /\ call.ret >= -1000 /\ call.ret <= 1000
          /\ (call.depth = 0 /\ checkWinner(call.board) = "null") =>
                 (call.ret > -1000 /\ call.ret < 1000)

\* the board of 32 black pieces each the heaviest for its square has been
\* evaluated, to 4 * (6 * 15 + 16 + 17) = 492
C20_Witness ==
    /\ call.op = "evaluateBoard"
    /\ Count(call.board, "black") = 32
    /\ call.ret = 492

----------------------------------------------------------------------------
(* Host loop: C14, C15 *)

\* C14: the moves applied to the game board alternate between white and
\* black, the first one after the start of the game or a reset being white's:
\* a move of a side is never applied right after a move of the same side.
C14_Alternation ==
    call.op = "applyMove" =>
        call.side = (IF call.previous = "white" THEN "black" ELSE "white")

\* C15: a move applied for the human side is one of
\* getAllValidMoves(B, "white") for the game board B at the time it is applied.
C15_HumanMoveLegal ==
    (call.op = "applyMove" /\ call.side = "white") =>
        call.move \in SeqRange(getAllValidMoves(call.current, "white"))

----------------------------------------------------------------------------
(* Advanced tier: C21 *)

\* the scores of the legal black moves, in generation order
searchScores(b, rating) ==
    LET moves == getAllValidMoves(b, "black")
    IN  [i \in 1 .. Len(moves) |-> searchScore(b, rating, moves[i])]

\* C21: at rating >= 1200, on a board with a legal black move, getBotMove
\* returns the first move in getAllValidMoves(board, "black") order whose
\* search score is the largest one, and the same move for the largest random
\* number as for the smallest (with which the call was made).
C21_FirstBest ==
    (call.op = "getBotMove" /\ call.difficulty >= 1200
        /\ HasMoves(call.board, "black")) =>
        LET moves == getAllValidMoves(call.board, "black")
            scores == searchScores(call.board, call.difficulty)
            first == CHOOSE i \in 1 .. Len(moves) :
                         /\ \A j \in 1 .. Len(moves) : scores[i] >= scores[j]
                         /\ \A j \in 1 .. (i - 1) : scores[j] < scores[i]
        IN  /\ call.ret = moves[first]
            /\ getBotMove(call.board, call.difficulty, RandomSteps - 1) = call.ret

\* two different moves share the largest score, a third one scores less, and
\* the earlier of the two is returned
C21_Witness ==
    /\ call.op = "getBotMove"
    /\ call.difficulty >= 1200
    /\ HasMoves(call.board, "black")
    /\ LET moves == getAllValidMoves(call.board, "black")
           scores == searchScores(call.board, call.difficulty)
       IN  \E i \in 1 .. Len(moves), j \in 1 .. Len(moves), k \in 1 .. Len(moves) :
              /\ i < j
              /\ call.ret = moves[i]
              /\ moves[j] # moves[i]
              /\ scores[j] = scores[i]
              /\ scores[k] < scores[i]

----------------------------------------------------------------------------
(* The side to act cannot move: C22 *)

\* C22: minimax at depth > 0 on a board where checkWinner is null and the
\* side to act (black when maximizing, white when minimizing) has no legal
\* move returns -1000 when maximizing and 1000 when minimizing.
C22_StuckActorLoses ==
    (call.op = "minimax" /\ call.depth > 0
        /\ checkWinner(call.board) = "null"
        /\ ~HasMoves(call.board, IF call.isMaximizing THEN "black" ELSE "white")) =>
        call.ret = (IF call.isMaximizing THEN -1000 ELSE 1000)

\* both sides have pieces, neither can move, black is to act and is scored
\* as the loser although the pieces evaluate to 0
C22_Witness ==
    /\ call.op = "minimax"
    /\ call.depth > 0
    /\ call.isMaximizing
    /\ checkWinner(call.board) = "null"
    /\ Count(call.board, "black") > 0
    /\ Count(call.board, "white") > 0
    /\ ~HasMoves(call.board, "black")
    /\ evaluateBoard(call.board) = 0
    /\ call.ret = -1000

----------------------------------------------------------------------------
(* Depth of the recursion: C23 *)

\* the call makes no recursive call: a winner, depth 0, or no move to make
Stops(b, depth, isMaximizing) ==
    \/ checkWinner(b) # "null"
    \/ depth = 0
    \/ ~HasMoves(b, IF isMaximizing THEN "black" ELSE "white")

\* C23: a minimax call with depth d >= 0 returns, the minimax calls below it
\* are nested at most d deep, and it makes none exactly when the board has a
\* winner, d is 0 or the side to act has no move; getBotMove returns at every
\* rating, its searches at rating >= 1200 being nested at most depth - 1 deep
\* below the call made for a move.
C23_BoundedRecursion ==
    /\ call.op = "minimax" =>
          /\ call.ret \in Int
          /\ call.nesting >= 0
          /\ call.nesting <= call.depth
          /\ (call.nesting = 0) <=> Stops(call.board, call.depth, call.isMaximizing)
    /\ call.op = "getBotMove" =>
          /\ call.ret = NoMove \/ call.ret \in SeqRange(getAllValidMoves(call.board, "black"))
          /\ call.difficulty >= 1200 =>
                LET depth == IF call.difficulty >= 1600 THEN 4 ELSE 3
                IN  \A m \in SeqRange(getAllValidMoves(call.board, "black")) :
                        minimaxRun(makeMove(call.board, m), depth - 1,
                                   -Infinity, Infinity, FALSE).nesting <= depth - 1

\* a search of depth 2 or more has gone all the way down, from a board from
\* which another line of play ends earlier (fewer positions than a full tree)
C23_Witness ==
    /\ call.op = "minimax"
    /\ call.depth >= 2
    /\ call.nesting = call.depth
    /\ call.visited > call.depth + 1

----------------------------------------------------------------------------
(* Material: C27 *)

\* C27: applying a generator move leaves the mover's piece count as it was
\* and lowers the other side's by the number of captured squares, 0 or 1, so
\* no count ever grows beyond the 12 of the initial board; a king on the
\* board is afterwards still a king (on its square, or on the destination if
\* it is the piece moved) unless it is the piece captured.
C27_Material ==
    call.op = "makeMove" =>
        LET other == Opponent(call.side)
            m == call.move
        IN  /\ Len(m.captured) \in {0, 1}
            /\ Count(call.ret, call.side) = Count(call.board, call.side)
            /\ Count(call.ret, other) = Count(call.board, other) - Len(m.captured)
            /\ Count(call.board, call.side) <= 12 => Count(call.ret, call.side) <= 12
            /\ Count(call.board, other) <= 12 => Count(call.ret, other) <= 12
            /\ \A p \in AllSquares :
                  At(call.board, p).isKing =>
                      \/ p \in SeqRange(m.captured)
                      \/ p = m.from /\ At(call.ret, m.to) = At(call.board, p)
                      \/ p \notin Touched(m) /\ At(call.ret, p) = At(call.board, p)

\* a king jumps a piece without landing on its far row, next to another king
C27_Witness ==
    /\ call.op = "makeMove"
    /\ isCapture(call.move)
    /\ At(call.board, call.move.from).isKing
    /\ call.move.to.row \notin {0, BOARD_SIZE - 1}
    /\ At(call.ret, call.move.to).isKing
    /\ Count(call.ret, Opponent(call.side)) = Count(call.board, Opponent(call.side)) - 1
    /\ \E p \in AllSquares \ Touched(call.move) : At(call.board, p).isKing

----------------------------------------------------------------------------
(* The thinking indicator: C26 *)

\* C26: isThinking is true only while it is black's turn and no winner is
\* declared; whenever it is white's turn, right after a reset included, it is
\* false.
C26_ThinkingOnBlackTurn ==
    /\ game.isThinking => (game.currentPlayer = "black" /\ game.winner = "null")
    /\ game.currentPlayer = "white" => ~game.isThinking

----------------------------------------------------------------------------
(* Reset: C25 *)

\* C25: after resetGame the board is the initial board with white to move,
\* no winner, no selection and no animating move, and a move applied to the
\* game afterwards was selected after that reset: no callback scheduled
\* before a reset alters the board, the turn or the winner after it.
C25_ResetEffective ==
    /\ call.op = "resetGame" =>
           /\ board = createInitialBoard
           /\ game.currentPlayer = "white"
           /\ game.winner = "null"
           /\ game.selectedPosition = NoPosition
           /\ game.animatingMove = NoMove
    /\ call.op = "applyMove" => call.epoch = resets

----------------------------------------------------------------------------
(* No stuck turn: C24 *)

\* C24: whenever no winner is declared, it is white's turn and no move is
\* animating, white has at least one legal move: a position in which white
\* cannot move, the one where neither side can move included, is never left
\* waiting for a human move.
C24_NoStuckTurn ==
    (game.winner = "null" /\ game.currentPlayer = "white"
        /\ game.animatingMove = NoMove)
        => Len(getAllValidMoves(board, "white")) > 0

====
